---- MODULE Spec2Model ----
(***************************************************************************)
(* A model of trivia-server/app.py: a RaftNode per server process, the     *)
(* /ws/node handler (append_entries, request_vote), start_election,        *)
(* become_leader, the election timer, the leader's heartbeat loop and the  *)
(* /ws/player handler.                                                     *)
(*                                                                         *)
(* Transport.  A node n sends on node.connections[p]; what it sends is     *)
(* handled by p's ws_node handler, and the handler's answer comes back to  *)
(* n on the same connection.  req[n][p] is the request of n in flight to   *)
(* p, resp[p][n] the answer of p in flight to n.  Two coroutines of n read *)
(* what arrives from p: the ws_node loop (line 335) and, while an election *)
(* of n waits for p, start_election (line 426); either may get it.         *)
(*                                                                         *)
(* Atomicity.  asyncio runs a coroutine until it waits.  A handler's state *)
(* changes all come before its send, so a handler is one step.             *)
(* start_election is cut at each ws.receive_text().                        *)
(***************************************************************************)
EXTENDS Integers, Sequences, FiniteSets, TLC

\* ------------------------------------------------------------------ bounds
MaxTerm == 2
MaxLog == 1
MaxAwards == 2

\* --------------------------------------------------------------- constants
AllNodes == <<"n1", "n2", "n3">>
Nodes == {AllNodes[i] : i \in 1..Len(AllNodes)}
None == "None"
NoMsg == [type |-> "none"]
\* node.active_game when it is None
NoGame == [id |-> None]
IndexOf(n) == CHOOSE i \in 1..Len(AllNodes) : AllNodes[i] = n
Peers(n) == Nodes \ {n}
\* The nodes whose process is followed step by step.  The other node of
\* all_nodes is down in a cluster (Spec): it never connects, never answers, and
\* its state stays as constructed; elsewhere it is a peer like any other.
Running == {"n1", "n2"}
RunningPeers(n) == Running \ {n}
\* The /ws/player connections (each a ws_player coroutine with its own uuid).
Conns == {"c1", "c2"}

VARIABLES
    current_term,     \* node.current_term
    voted_for,        \* node.voted_for
    log,              \* node.log
    commit_index,     \* node.commit_index
    last_applied,     \* node.last_applied
    role,             \* node.role
    leader_id,        \* node.leader_id
    timer_expired,    \* time.time() - node.last_heartbeat > node.election_timeout
    connections,      \* the keys of node.connections
    req,              \* req[n][p]: what n sent on connections[p], not yet handled by p
    resp,             \* resp[p][n]: the answer of p's handler, not yet read by n
    asking,           \* start_election: the peer whose answer it waits for, or None
    votes,            \* start_election: its local variable votes
    timer_task,       \* the raft_election_timer task: "running" or "crashed"
    hb_next,          \* raft_leader_tasks: index in all_nodes its for loop is at, 0 outside
    players,          \* node.players: player id -> score
    connected_players,\* the keys of connected_players (one dict per process)
    active_game,      \* node.active_game
    player_at,        \* the node a ws_player coroutine runs on, None when it is not open
    last_sent,        \* the last message ws_player sent on its own websocket
    voted_in_term,    \* history: the candidates the node granted a vote in its current term
    granters          \* history: the peers whose granting answer the election counted

raftVars == <<current_term, voted_for, log, commit_index, last_applied, role,
              leader_id, timer_expired, connections, req, resp, asking, votes,
              timer_task, hb_next, voted_in_term, granters>>

playerVars == <<players, connected_players, active_game, player_at, last_sent>>

vars == <<raftVars, playerVars>>

\* ---------------------------------------------------------------- messages
RequestVoteMsg(n, term) ==
    [type |-> "request_vote",
     term |-> term,
     candidate_id |-> n,
     last_log_index |-> IF Len(log[n]) > 0 THEN Len(log[n]) - 1 ELSE -1,
     last_log_term |-> IF Len(log[n]) > 0 THEN log[n][Len(log[n])].term ELSE 0]

AppendEntriesMsg(n) ==
    [type |-> "append_entries",
     term |-> current_term[n],
     leader_id |-> n,
     entries |-> <<>>]

\* ------------------------------------------------------------------- Init
Init ==
    /\ current_term = [n \in Nodes |-> 0]
    /\ voted_for = [n \in Nodes |-> None]
    /\ log = [n \in Nodes |-> <<>>]
    /\ commit_index = [n \in Nodes |-> 0]
    /\ last_applied = [n \in Nodes |-> 0]
    /\ role = [n \in Nodes |-> "follower"]
    /\ leader_id = [n \in Nodes |-> None]
    /\ timer_expired = [n \in Nodes |-> FALSE]
    /\ connections = [n \in Nodes |-> {}]
    /\ req = [n \in Nodes |-> [p \in Nodes |-> NoMsg]]
    /\ resp = [n \in Nodes |-> [p \in Nodes |-> NoMsg]]
    /\ asking = [n \in Nodes |-> None]
    /\ votes = [n \in Nodes |-> 0]
    /\ timer_task = [n \in Nodes |-> "running"]
    /\ hb_next = [n \in Nodes |-> 0]
    /\ voted_in_term = [n \in Nodes |-> {}]
    /\ granters = [n \in Nodes |-> {}]
    /\ players = [n \in Nodes |-> <<>>]
    /\ connected_players = [n \in Nodes |-> {}]
    /\ active_game = [n \in Nodes |-> NoGame]
    /\ player_at = [c \in Conns |-> None]
    /\ last_sent = [c \in Conns |-> "none"]

\* ----------------------------------------------------- ws_node: connection
\* ws_node accepts a connection of peer p and registers it.
Connect(n, p) ==
    /\ p \in RunningPeers(n)
    /\ p \notin connections[n]
    /\ connections' = [connections EXCEPT ![n] = @ \cup {p}]
    /\ UNCHANGED <<current_term, voted_for, log, commit_index, last_applied, role,
                   leader_id, timer_expired, req, resp, asking, votes, timer_task,
                   hb_next, voted_in_term, granters>>
    /\ UNCHANGED playerVars

\* ------------------------------------------------------------ the timer
\* Time passes on node n until its election timeout has elapsed.
Tick(n) ==
    /\ ~timer_expired[n]
    /\ timer_expired' = [timer_expired EXCEPT ![n] = TRUE]
    /\ UNCHANGED <<current_term, voted_for, log, commit_index, last_applied, role,
                   leader_id, connections, req, resp, asking, votes, timer_task,
                   hb_next, voted_in_term, granters>>
    /\ UNCHANGED playerVars

\* ------------------------------------------------ ws_node: append_entries
\* AcceptsAppendEntries without its comparison of terms
AcceptsAnyTerm(n, m) == TRUE

\* line 343: the sender's term is greater or equal
AcceptsAppendEntries(n, m) == m.term >= current_term[n]

\* The role is left as it is
RoleKept(r) == r

\* line 345: whatever the role r was, node.role = "follower"
RoleOnAppendEntries(r) == "follower"

AppendEntriesResponse(term, success) ==
    [type |-> "append_entries_response", term |-> term, success |-> success]

\* The append_entries branch on node n for message m of peer src, its answer
\* included.  The caller says where m came from (req').
HandleAppendEntries(n, src, m) ==
    /\ m.type = "append_entries"
    /\ resp[n][src] = NoMsg
    /\ IF AcceptsAppendEntries(n, m)
       THEN /\ current_term' = [current_term EXCEPT ![n] = m.term]
            /\ role' = [role EXCEPT ![n] = RoleOnAppendEntries(@)]
            /\ leader_id' = [leader_id EXCEPT ![n] = m.leader_id]
            /\ timer_expired' = [timer_expired EXCEPT ![n] = FALSE]
            /\ log' = [log EXCEPT ![n] = @ \o m.entries]
            /\ resp' = [resp EXCEPT ![n][src] = AppendEntriesResponse(m.term, TRUE)]
       ELSE /\ resp' = [resp EXCEPT ![n][src] =
                           AppendEntriesResponse(current_term[n], FALSE)]
            /\ UNCHANGED <<current_term, role, leader_id, timer_expired, log>>
    /\ voted_in_term' = [voted_in_term EXCEPT ![n] =
                            IF current_term'[n] = current_term[n] THEN @ ELSE {}]
    /\ UNCHANGED <<voted_for, commit_index, last_applied, connections, asking,
                   votes, timer_task, hb_next, granters>>
    /\ UNCHANGED playerVars

\* -------------------------------------------------- ws_node: request_vote
\* CanVote without its look at voted_for
CanVoteAlways(voted, candidate_id) == TRUE

\* line 378, first conjunct
CanVote(voted, candidate_id) == voted = None \/ voted = candidate_id

\* TermNotLower without its comparison
TermAny(term, own_term) == TRUE

\* line 378, second conjunct
TermNotLower(term, own_term) == term >= own_term

\* lines 379-380
LastLogTermX(l) == IF Len(l) > 0 THEN l[Len(l)].term ELSE 0
LastLogIndexX(l) == Len(l) - 1

\* LogUpToDate by the index alone
LogUpToDateByIndex(m, l) == m.last_log_index >= LastLogIndexX(l)

\* line 382: the candidate's log is up to date
LogUpToDate(m, l) ==
    \/ m.last_log_term > LastLogTermX(l)
    \/ /\ m.last_log_term = LastLogTermX(l)
       /\ m.last_log_index >= LastLogIndexX(l)

RequestVoteResponse(term, vote_granted) ==
    [type |-> "request_vote_response", term |-> term, vote_granted |-> vote_granted]

\* The request_vote branch on node n for message m of peer src, its answer
\* included.
HandleRequestVote(n, src, m) ==
    /\ m.type = "request_vote"
    /\ resp[n][src] = NoMsg
    /\ LET higher == m.term > current_term[n]
           term1 == IF higher THEN m.term ELSE current_term[n]
           voted1 == IF higher THEN None ELSE voted_for[n]
           role1 == IF higher THEN "follower" ELSE role[n]
           grant_vote == /\ CanVote(voted1, m.candidate_id)
                         /\ TermNotLower(m.term, term1)
                         /\ LogUpToDate(m, log[n])
       IN /\ current_term' = [current_term EXCEPT ![n] = term1]
          /\ role' = [role EXCEPT ![n] = role1]
          /\ voted_for' = [voted_for EXCEPT ![n] =
                              IF grant_vote THEN m.candidate_id ELSE voted1]
          /\ timer_expired' = [timer_expired EXCEPT ![n] =
                                  IF grant_vote THEN FALSE ELSE @]
          /\ resp' = [resp EXCEPT ![n][src] = RequestVoteResponse(term1, grant_vote)]
          /\ voted_in_term' = [voted_in_term EXCEPT ![n] =
                                  (IF higher THEN {} ELSE @)
                                  \cup (IF grant_vote THEN {m.candidate_id} ELSE {})]
    /\ UNCHANGED <<log, commit_index, last_applied, leader_id, connections, asking,
                   votes, timer_task, hb_next, granters>>
    /\ UNCHANGED playerVars

\* A request of peer src reaches the handler of n.
RecvAppendEntries(n, src) ==
    /\ HandleAppendEntries(n, src, req[src][n])
    /\ req' = [req EXCEPT ![src][n] = NoMsg]

RecvRequestVote(n, src) ==
    /\ HandleRequestVote(n, src, req[src][n])
    /\ req' = [req EXCEPT ![src][n] = NoMsg]

\* The ws_node loop of n reads an answer of p: no branch handles it.
DropResponse(n, p) ==
    /\ resp[p][n] # NoMsg
    /\ resp' = [resp EXCEPT ![p][n] = NoMsg]
    /\ UNCHANGED <<current_term, voted_for, log, commit_index, last_applied, role,
                   leader_id, timer_expired, connections, req, asking, votes,
                   timer_task, hb_next, voted_in_term, granters>>
    /\ UNCHANGED playerVars

\* ------------------------------------------------------- notify_players
\* notify_players on node n when connected_players holds the ids cp: a send that
\* fails removes that player from connected_players (lines 195-197).
NotifyPlayers(n, cp) ==
    \E failed \in SUBSET cp :
        connected_players' = [connected_players EXCEPT ![n] = cp \ failed]

\* ------------------------------------------------------- start_election
\* Majority with >= for >
HalfOrMore(v) == v >= Len(AllNodes) \div 2

\* line 434
Majority(v) == v > Len(AllNodes) \div 2

\* line 428: data.get("vote_granted")
CountsAsVote(m) == m.type = "request_vote_response" /\ m.vote_granted

\* The for loop of start_election on n after the peer at index `after`, with v
\* votes so far, up to the next ws.receive_text() or to the end of the function.
\* A peer that is not connected is skipped; a send that fails is caught and the
\* peer skipped; with a majority at the end, become_leader runs, and its
\* start_new_game raises (line 203, len(questions - 1)), which ends the
\* raft_election_timer task that awaited start_election.
\* term, r0, te0: the node's term, role and timer when the loop goes on;
\* req0, conn0: the requests in flight and the node's connections then.
ElectionLoop(n, after, v, term, r0, te0, req0, conn0) ==
    /\ votes' = [votes EXCEPT ![n] = v]
    /\ \/ \E q \in conn0 :
            /\ IndexOf(q) > after
            /\ req0[n][q] = NoMsg
            /\ asking' = [asking EXCEPT ![n] = q]
            /\ req' = [req0 EXCEPT ![n][q] = RequestVoteMsg(n, term)]
            /\ role' = [role EXCEPT ![n] = r0]
            /\ timer_expired' = [timer_expired EXCEPT ![n] = te0]
            /\ UNCHANGED <<leader_id, timer_task, connected_players>>
       \/ /\ asking' = [asking EXCEPT ![n] = None]
          /\ req' = req0
          /\ IF Majority(v)
             THEN /\ role' = [role EXCEPT ![n] = "leader"]
                  /\ leader_id' = [leader_id EXCEPT ![n] = n]
                  /\ timer_expired' = [timer_expired EXCEPT ![n] = FALSE]
                  /\ NotifyPlayers(n, connected_players[n])
                  /\ timer_task' = [timer_task EXCEPT ![n] = "crashed"]
             ELSE /\ role' = [role EXCEPT ![n] = r0]
                  /\ timer_expired' = [timer_expired EXCEPT ![n] = te0]
                  /\ UNCHANGED <<leader_id, timer_task, connected_players>>

\* raft_election_timer finds the timeout elapsed and calls start_election.
StartElection(n) ==
    /\ timer_task[n] = "running"
    /\ asking[n] = None
    /\ role[n] \in {"follower", "candidate"}
    /\ timer_expired[n]
    /\ current_term[n] < MaxTerm
    /\ current_term' = [current_term EXCEPT ![n] = @ + 1]
    /\ voted_for' = [voted_for EXCEPT ![n] = n]
    /\ voted_in_term' = [voted_in_term EXCEPT ![n] = {n}]
    /\ granters' = [granters EXCEPT ![n] = {}]
    /\ ElectionLoop(n, 0, 1, current_term[n] + 1, "candidate", FALSE, req,
                    connections[n])
    /\ UNCHANGED <<log, commit_index, last_applied, connections, resp, hb_next>>
    /\ UNCHANGED <<players, active_game, player_at, last_sent>>

\* start_election reads the answer it waits for (line 426) and goes on.
ElectionRecv(n) ==
    /\ asking[n] # None
    /\ LET p == asking[n]
           m == resp[p][n]
       IN /\ m # NoMsg
          /\ resp' = [resp EXCEPT ![p][n] = NoMsg]
          /\ granters' = [granters EXCEPT ![n] =
                             IF m.type = "request_vote_response" /\ m.vote_granted
                             THEN @ \cup {p} ELSE @]
          /\ ElectionLoop(n, IndexOf(p), votes[n] + (IF CountsAsVote(m) THEN 1 ELSE 0),
                          current_term[n], role[n], timer_expired[n], req,
                          connections[n])
    /\ UNCHANGED <<current_term, voted_for, log, commit_index, last_applied,
                   connections, hb_next, voted_in_term>>
    /\ UNCHANGED <<players, active_game, player_at, last_sent>>

\* The connection of n to p closes: what is in flight on it is lost, the ws_node
\* cleanup removes it (lines 396-399), and an election of n that waits for p
\* gets the exception (line 431) and goes on with the next peer.
Disconnect(n, p) ==
    /\ p \in connections[n]
    /\ connections' = [connections EXCEPT ![n] = @ \ {p}]
    /\ resp' = [resp EXCEPT ![p][n] = NoMsg]
    /\ IF asking[n] = p
       THEN ElectionLoop(n, IndexOf(p), votes[n], current_term[n], role[n],
                         timer_expired[n], [req EXCEPT ![n][p] = NoMsg],
                         connections[n] \ {p})
       ELSE /\ req' = [req EXCEPT ![n][p] = NoMsg]
            /\ UNCHANGED <<role, leader_id, timer_expired, asking, votes, timer_task,
                           connected_players>>
    /\ UNCHANGED <<current_term, voted_for, log, commit_index, last_applied,
                   hb_next, voted_in_term, granters>>
    /\ UNCHANGED <<players, active_game, player_at, last_sent>>

\* ---------------------------------------------------- raft_leader_tasks
\* The for loop of raft_leader_tasks on n from index i: the next peer gets an
\* append_entries with the node's term as it is now, then the loop sleeps.
HeartbeatFrom(n, i) ==
    LET rest == {j \in i..Len(AllNodes) : AllNodes[j] # n}
        j == CHOOSE x \in rest : \A y \in rest : x <= y
        later == rest \ {j}
        q == AllNodes[j]
    IN /\ rest # {}
       /\ hb_next' = [hb_next EXCEPT ![n] =
                         IF later = {} THEN 0
                         ELSE CHOOSE x \in later : \A y \in later : x <= y]
       /\ IF q \in connections[n] /\ req[n][q] = NoMsg
          THEN req' = [req EXCEPT ![n][q] = AppendEntriesMsg(n)]
          ELSE UNCHANGED req
       /\ UNCHANGED <<current_term, voted_for, log, commit_index, last_applied, role,
                      leader_id, timer_expired, connections, resp, asking, votes,
                      timer_task, voted_in_term, granters>>
       /\ UNCHANGED playerVars

\* line 461: the while loop finds the node leader and enters the for loop
LeaderHeartbeat(n) ==
    /\ hb_next[n] = 0
    /\ role[n] = "leader"
    /\ HeartbeatFrom(n, 1)

\* the for loop goes on after its sleep, whatever the role is by now
LeaderHeartbeatNext(n) ==
    /\ hb_next[n] > 0
    /\ HeartbeatFrom(n, hb_next[n])


\* ------------------------------------------------------------- ws_player
\* A cleanup that empties node.players
CleanupEveryone(c, n) ==
    /\ players' = [players EXCEPT ![n] = <<>>]
    /\ IF c \in DOMAIN players[n]
       THEN NotifyPlayers(n, connected_players[n] \ {c})
       ELSE connected_players' = [connected_players EXCEPT ![n] = @ \ {c}]
    /\ player_at' = [player_at EXCEPT ![c] = None]
    /\ last_sent' = [last_sent EXCEPT ![c] = "none"]

\* The cleanup of ws_player's finally block for player c on node n: the player
\* leaves connected_players and node.players, the others are notified.
Cleanup(c, n) ==
    /\ players' = [players EXCEPT ![n] =
                      [x \in DOMAIN @ \ {c} |-> @[x]]]
    /\ IF c \in DOMAIN players[n]
       THEN NotifyPlayers(n, connected_players[n] \ {c})
       ELSE connected_players' = [connected_players EXCEPT ![n] = @ \ {c}]
    /\ player_at' = [player_at EXCEPT ![c] = None]
    /\ last_sent' = [last_sent EXCEPT ![c] = "none"]

\* A client opens /ws/player on node n: the connection gets its id.
PlayerConnect(c, n) ==
    /\ player_at[c] = None
    /\ player_at' = [player_at EXCEPT ![c] = n]
    /\ last_sent' = [last_sent EXCEPT ![c] = "connection_established"]
    /\ UNCHANGED <<players, connected_players, active_game>>
    /\ UNCHANGED raftVars

\* A join that only the leader executes
JoinOnLeader(c) ==
    /\ player_at[c] # None
    /\ LET n == player_at[c]
       IN /\ players' = [players EXCEPT ![n] =
                            IF role[n] = "leader" THEN (c :> 0) @@ @ ELSE @]
          /\ NotifyPlayers(n, connected_players[n] \cup {c})
          /\ c \in connected_players'[n]
          /\ last_sent' = [last_sent EXCEPT ![c] = "welcome"]
    /\ UNCHANGED <<active_game, player_at>>
    /\ UNCHANGED raftVars

\* The join branch: whatever the node's role, the player is put in node.players
\* with score 0, gets the welcome message, and the others are notified.
Join(c) ==
    /\ player_at[c] # None
    /\ LET n == player_at[c]
       IN /\ players' = [players EXCEPT ![n] = (c :> 0) @@ @]
          /\ NotifyPlayers(n, connected_players[n] \cup {c})
          /\ c \in connected_players'[n]
          /\ last_sent' = [last_sent EXCEPT ![c] = "welcome"]
    /\ UNCHANGED <<active_game, player_at>>
    /\ UNCHANGED raftVars

\* The start_game branch: on the leader start_new_game runs and raises at line
\* 203 (len(questions - 1)); ws_player catches it (line 309) and its finally
\* block cleans up.  On another node nothing happens.
StartGame(c) ==
    /\ player_at[c] # None
    /\ LET n == player_at[c]
       IN IF role[n] = "leader"
          THEN Cleanup(c, n)
          ELSE UNCHANGED <<players, connected_players, player_at, last_sent>>
    /\ UNCHANGED active_game
    /\ UNCHANGED raftVars

\* The questions list: the stored answer of each question, a str for the first
\* and a list of one str for the others.
Questions ==
    <<[id |-> 1, answer |-> [kind |-> "str", text |-> "19"]],
      [id |-> 2, answer |-> [kind |-> "list", text |-> "Kendrick Lamar"]],
      [id |-> 3, answer |-> [kind |-> "list", text |-> "K"]],
      [id |-> 4, answer |-> [kind |-> "list", text |-> "Concealer"]],
      [id |-> 5, answer |-> [kind |-> "list", text |-> "Sri Lanka"]]>>

AnswerInputs ==
    {[kind |-> "str", text |-> "19"], [kind |-> "str", text |-> "21"],
     [kind |-> "list", text |-> "Kendrick Lamar"],
     [kind |-> "str", text |-> "Kendrick Lamar"]}

\* Correct whatever the answer is
CorrectAlways(question_id, answer_id) == TRUE

\* lines 285-286: question.answer == answer_id
Correct(question_id, answer_id) == Questions[question_id + 1].answer = answer_id

\* The answer branch for the message {question_id, answer_id}: without an active
\* game of that question still running, nothing is done and nothing is sent.
Answer(c, question_id, answer_id) ==
    /\ player_at[c] # None
    /\ LET n == player_at[c]
           g == active_game[n]
       IN IF g # NoGame /\ g.question_id = question_id /\ g.running
          THEN LET correct == Correct(question_id, answer_id)
               IN /\ players' = [players EXCEPT ![n] =
                                    IF correct /\ c \in DOMAIN @
                                    THEN [@ EXCEPT ![c] = @ + 10] ELSE @]
                  /\ last_sent' = [last_sent EXCEPT ![c] = "update_score"]
                  /\ NotifyPlayers(n, connected_players[n])
          ELSE UNCHANGED <<players, last_sent, connected_players>>
    /\ UNCHANGED <<active_game, player_at>>
    /\ UNCHANGED raftVars

\* The elements of a finite set in a sequence, each once.
RECURSIVE SeqOf(_)
SeqOf(S) ==
    IF S = {} THEN <<>>
    ELSE LET x == CHOOSE y \in S : TRUE IN <<x>> \o SeqOf(S \ {x})

\* GET /players: one dict for each value of node.players.
GetPlayers(n) ==
    LET ids == SeqOf(DOMAIN players[n])
    IN [i \in 1..Len(ids) |-> [id |-> ids[i], score |-> players[n][ids[i]]]]

\* The client's websocket closes: WebSocketDisconnect, then the finally block.
PlayerDisconnect(c) ==
    /\ player_at[c] # None
    /\ Cleanup(c, player_at[c])
    /\ UNCHANGED active_game
    /\ UNCHANGED raftVars

\* The clients of a cluster.  No game is ever active there (start_new_game
\* raises before it assigns one), so every answer message does the same, nothing,
\* and one message stands for them all; NextGame sends them all.
NextPlayer ==
    \E c \in Conns :
        \/ \E n \in Running : PlayerConnect(c, n)
        \/ Join(c)
        \/ StartGame(c)
        \/ Answer(c, 0, [kind |-> "str", text |-> "19"])
        \/ PlayerDisconnect(c)

\* ------------------------------------------- ws_node: messages of any peer
\* /ws/node/{node_id} handles whatever message a connected peer sends.  The
\* messages below are the well-formed ones within the bounds: log entries are
\* dicts with a term and a command, here the join of a player; no handler reads
\* the command of an entry, so one command stands for them all.
Commands == {[op |-> "join", player |-> "c1"]}
Entry == [term : 1..MaxTerm, command : Commands]
EntriesInputs == {<<>>} \cup {<<e>> : e \in Entry}

AppendEntriesInputs(n) ==
    [type : {"append_entries"}, term : 0..MaxTerm, leader_id : Peers(n),
     entries : EntriesInputs]

RequestVoteInputs(n) ==
    [type : {"request_vote"}, term : 0..MaxTerm, candidate_id : Peers(n),
     last_log_index : -1..(MaxLog - 1), last_log_term : 0..MaxTerm]

\* A peer src sends node n the append_entries m.
PeerSendsAppendEntries(n, src, m) ==
    /\ Len(log[n]) + Len(m.entries) <= MaxLog
    /\ HandleAppendEntries(n, src, m)
    /\ UNCHANGED req

PeerAppendEntries(n, src) ==
    \E m \in AppendEntriesInputs(n) : PeerSendsAppendEntries(n, src, m)

\* A peer src sends node n the request_vote m.
PeerSendsRequestVote(n, src, m) ==
    /\ HandleRequestVote(n, src, m)
    /\ UNCHANGED req

PeerRequestVote(n, src) ==
    \E m \in RequestVoteInputs(n) : PeerSendsRequestVote(n, src, m)

\* The peer src reads the answer of node n.
PeerReads(n, src) ==
    /\ resp[n][src] # NoMsg
    /\ resp' = [resp EXCEPT ![n][src] = NoMsg]
    /\ UNCHANGED <<current_term, voted_for, log, commit_index, last_applied, role,
                   leader_id, timer_expired, connections, req, asking, votes,
                   timer_task, hb_next, voted_in_term, granters>>
    /\ UNCHANGED playerVars

\* ------------------------------------------------------------------ Next
NextRaft ==
    \E n \in Running :
        \/ Tick(n)
        \/ StartElection(n)
        \/ ElectionRecv(n)
        \/ LeaderHeartbeat(n)
        \/ LeaderHeartbeatNext(n)
        \/ \E p \in RunningPeers(n) :
              \/ Connect(n, p)
              \/ Disconnect(n, p)
              \/ RecvAppendEntries(n, p)
              \/ RecvRequestVote(n, p)
              \/ DropResponse(n, p)

Next == NextRaft \/ NextPlayer

\* The cluster: the nodes' own messages only, and the players.
Spec == Init /\ [][Next]_vars

\* One node, its election timer, and peers that send it any well-formed message.
NextRpc ==
    \/ Tick("n1")
    \/ StartElection("n1")
    \/ \E src \in RunningPeers("n1") :
          \/ PeerAppendEntries("n1", src)
          \/ PeerRequestVote("n1", src)
          \/ PeerReads("n1", src)

SpecRpc == Init /\ [][NextRpc]_vars

\* Two nodes and peers that send them any well-formed append_entries.
NextLog ==
    \E n \in Running : \E src \in RunningPeers(n) :
        \/ PeerAppendEntries(n, src)
        \/ PeerReads(n, src)

SpecLog == Init /\ [][NextLog]_vars

\* An append_entries that also states the entry its entries follow, as a Raft
\* leader's does.  The handler reads type, term, leader_id and entries only
\* (lines 338-341), so the two fields change nothing of what it does.
AppendEntriesPrevInputs(n) ==
    [type : {"append_entries"}, term : 0..MaxTerm, leader_id : Peers(n),
     entries : EntriesInputs, prev_log_index : -1..(MaxLog - 1),
     prev_log_term : 0..MaxTerm]

PeerSendsAppendEntriesPrev(n, src, m) ==
    /\ Len(log[n]) + Len(m.entries) <= MaxLog
    /\ HandleAppendEntries(n, src, m)
    /\ UNCHANGED req

\* Two nodes and peers that send them any such append_entries.
NextAccept ==
    \E n \in Running : \E src \in RunningPeers(n) :
        \/ \E m \in AppendEntriesPrevInputs(n) : PeerSendsAppendEntriesPrev(n, src, m)
        \/ PeerReads(n, src)

SpecAccept == Init /\ [][NextAccept]_vars

\* ------------------------------------- an election with both peers connected
\* A peer p of node n, up or not in a cluster, opens /ws/node/p on n.
PeerConnects(n, p) ==
    /\ p \notin connections[n]
    /\ connections' = [connections EXCEPT ![n] = @ \cup {p}]
    /\ UNCHANGED <<current_term, voted_for, log, commit_index, last_applied, role,
                   leader_id, timer_expired, req, resp, asking, votes, timer_task,
                   hb_next, voted_in_term, granters>>
    /\ UNCHANGED playerVars

\* The answers a peer can give to a request_vote.
RequestVoteResponses ==
    {RequestVoteResponse(term, vote_granted) :
        term \in 0..MaxTerm, vote_granted \in BOOLEAN}

\* The peer p answers the request_vote that node n sent it.
PeerAnswers(n, p, m) ==
    /\ req[n][p].type = "request_vote"
    /\ resp[p][n] = NoMsg
    /\ req' = [req EXCEPT ![n][p] = NoMsg]
    /\ resp' = [resp EXCEPT ![p][n] = m]
    /\ UNCHANGED <<current_term, voted_for, log, commit_index, last_applied, role,
                   leader_id, timer_expired, connections, asking, votes, timer_task,
                   hb_next, voted_in_term, granters>>
    /\ UNCHANGED playerVars

\* One node, its election timer and its elections, and two peers that connect,
\* ask for its vote and answer its requests as they like.
NextElect ==
    \/ Tick("n1")
    \/ StartElection("n1")
    \/ ElectionRecv("n1")
    \/ \E p \in Peers("n1") :
          \/ PeerConnects("n1", p)
          \/ \E m \in RequestVoteResponses : PeerAnswers("n1", p, m)
          \/ PeerRequestVote("n1", p)
          \/ PeerReads("n1", p)

SpecElect == Init /\ [][NextElect]_vars

\* ------------------------------------------------- elections, fairly run
\* The elections of the cluster.  The event loop runs every task that can go on:
\* raft_election_timer wakes every 100 ms (Tick, StartElection), a ws_node
\* handler handles a request that has arrived, and start_election takes an
\* answer that is there for it.  Nothing makes a connection open or close, and
\* which of the two readers of a connection gets an answer is not decided.
NextLive ==
    \E n \in Running :
        \/ Tick(n)
        \/ StartElection(n)
        \/ ElectionRecv(n)
        \/ \E p \in RunningPeers(n) :
              \/ Connect(n, p)
              \/ RecvRequestVote(n, p)
              \/ DropResponse(n, p)

SpecLive ==
    /\ Init
    /\ [][NextLive]_vars
    /\ \A n \in Running :
          /\ WF_vars(Tick(n))
          /\ WF_vars(StartElection(n))
          /\ WF_vars(ElectionRecv(n))
          /\ \A p \in RunningPeers(n) : WF_vars(RecvRequestVote(n, p))

\* The clients and the elections of the nodes they are connected to, the
\* heartbeat task left out: a node is follower, candidate or leader.
NextSession ==
    \/ NextPlayer
    \/ \E n \in Running :
          \/ Tick(n)
          \/ StartElection(n)
          \/ ElectionRecv(n)
          \/ \E p \in RunningPeers(n) :
                \/ Connect(n, p)
                \/ RecvRequestVote(n, p)

SpecSession == Init /\ [][NextSession]_vars

\* ------------------------------------------------------- a game under way
\* The answer branch with a game in node.active_game.  start_new_game is the only
\* writer of node.active_game and raises at line 203 before it writes, so the
\* branch is taken here as a function of the node's state: n1 is as become_leader
\* leaves it (lines 449-451) and holds the Game of line 214 for a question_id.
GameInputs == {[id |-> "g1", question_id |-> q, running |-> TRUE] : q \in {0, 1}}

InitGame ==
    /\ current_term = [n \in Nodes |-> IF n = "n1" THEN 1 ELSE 0]
    /\ voted_for = [n \in Nodes |-> IF n = "n1" THEN "n1" ELSE None]
    /\ log = [n \in Nodes |-> <<>>]
    /\ commit_index = [n \in Nodes |-> 0]
    /\ last_applied = [n \in Nodes |-> 0]
    /\ role = [n \in Nodes |-> IF n = "n1" THEN "leader" ELSE "follower"]
    /\ leader_id = [n \in Nodes |-> IF n = "n1" THEN "n1" ELSE None]
    /\ timer_expired = [n \in Nodes |-> FALSE]
    /\ connections = [n \in Nodes |-> {}]
    /\ req = [n \in Nodes |-> [p \in Nodes |-> NoMsg]]
    /\ resp = [n \in Nodes |-> [p \in Nodes |-> NoMsg]]
    /\ asking = [n \in Nodes |-> None]
    /\ votes = [n \in Nodes |-> 0]
    /\ timer_task = [n \in Nodes |-> "running"]
    /\ hb_next = [n \in Nodes |-> 0]
    /\ voted_in_term = [n \in Nodes |-> IF n = "n1" THEN {"n1"} ELSE {}]
    /\ granters = [n \in Nodes |-> {}]
    /\ players = [n \in Nodes |-> <<>>]
    /\ connected_players = [n \in Nodes |-> {}]
    /\ \E g \in GameInputs :
          active_game = [n \in Nodes |-> IF n = "n1" THEN g ELSE NoGame]
    /\ player_at = [c \in Conns |-> None]
    /\ last_sent = [c \in Conns |-> "none"]

\* line 284: time.time() reaches node.active_game.end_time
GameEnds(n) ==
    /\ active_game[n] # NoGame
    /\ active_game[n].running
    /\ active_game' = [active_game EXCEPT ![n].running = FALSE]
    /\ UNCHANGED <<players, connected_players, player_at, last_sent>>
    /\ UNCHANGED raftVars

\* An answer message of a client whose score is below the bound of the model.
AnswerSent(c, question_id, answer_id) ==
    /\ player_at[c] # None
    /\ \A x \in DOMAIN players[player_at[c]] :
          players[player_at[c]][x] < 10 * MaxAwards
    /\ Answer(c, question_id, answer_id)

NextGame ==
    \/ \E c \in Conns :
          \/ \E n \in Running : PlayerConnect(c, n)
          \/ Join(c)
          \/ \E question_id \in {0, 1}, answer_id \in AnswerInputs :
                AnswerSent(c, question_id, answer_id)
          \/ PlayerDisconnect(c)
    \/ \E n \in Running : GameEnds(n)

SpecGame == InitGame /\ [][NextGame]_vars

\* =================================================================== claims

\* C1: election safety: never two distinct nodes that are both leader with the
\* same current_term.
C1_ElectionSafety ==
    \A a \in Running : \A b \in Running \ {a} :
        (role[a] = "leader" /\ role[b] = "leader")
            => current_term[a] # current_term[b]

\* C2: a node grants at most one vote per term: the candidates it has granted a
\* vote while its current_term stayed the same (its own election's self-vote
\* included) are never two different ones.
C2_OneVotePerTerm ==
    \A n \in Running : Cardinality(voted_in_term[n]) <= 1

\* A node that has voted in its term has answered a request_vote of that term
\* with vote_granted false.
C2_Witness ==
    \E n \in Running : \E p \in RunningPeers(n) :
        /\ voted_in_term[n] # {}
        /\ voted_for[n] \notin {None, n}
        /\ resp[n][p] = RequestVoteResponse(current_term[n], FALSE)
        /\ log[n] = <<>>

\* C3: current_term of a node never decreases in any step, and a step of
\* start_election leaves it strictly greater.
C3_TermMonotonic ==
    [][\A n \in Running :
          /\ current_term'[n] >= current_term[n]
          /\ StartElection(n) => current_term'[n] > current_term[n]]_vars

\* A node is candidate of the highest term of the model by its own election.
C3_Witness ==
    \E n \in Running :
        role[n] = "candidate" /\ current_term[n] = MaxTerm /\ voted_for[n] = n

\* C4: log matching: an index present in the logs of two nodes holds the same
\* entry in both.
C4_LogMatching ==
    \A a \in Running : \A b \in Running :
        \A i \in 1..Len(log[a]) :
            i <= Len(log[b]) => log[a][i] = log[b][i]

\* The command is in the log of n at an index not above commit_index that a
\* strict majority of the nodes holds too.
Committed(n, command) ==
    \E i \in 1..Len(log[n]) :
        /\ i <= commit_index[n]
        /\ log[n][i].command = command
        /\ Cardinality({k \in Running : Len(log[k]) >= i /\ log[k][i] = log[n][i]}) * 2
               > Len(AllNodes)

\* C5: a player is in node.players only when its join is committed.
C5_VisibleOnlyCommitted ==
    \A n \in Running : \A c \in DOMAIN players[n] :
        Committed(n, [op |-> "join", player |-> c])

\* C6: the request_vote handler grants the vote (vote_granted true, voted_for
\* the candidate) exactly when, the term of a higher request adopted and the
\* vote cleared with it, the request's term is not lower than the node's, the
\* node has not voted or has voted for this candidate, and the candidate's last
\* entry is at least as up to date as the node's, by term and then by index;
\* otherwise it answers vote_granted false and voted_for stays.
C6_GrantRule ==
    [][\A n \in Running : \A src \in RunningPeers(n) : \A m \in RequestVoteInputs(n) :
          (resp'[n][src] # resp[n][src] /\ PeerSendsRequestVote(n, src, m)) =>
            LET higher == m.term > current_term[n]
                own_term == IF higher THEN m.term ELSE current_term[n]
                voted == IF higher THEN None ELSE voted_for[n]
                own_last_term == IF log[n] = <<>> THEN 0 ELSE log[n][Len(log[n])].term
                own_last_index == Len(log[n]) - 1
                up_to_date ==
                    \/ m.last_log_term > own_last_term
                    \/ m.last_log_term = own_last_term
                         /\ m.last_log_index >= own_last_index
                granted == /\ m.term >= own_term
                           /\ voted \in {None, m.candidate_id}
                           /\ up_to_date
            IN /\ resp'[n][src] = RequestVoteResponse(own_term, granted)
               /\ voted_for'[n] = IF granted THEN m.candidate_id ELSE voted]_vars

\* A node with a log has granted its vote, and one has refused it.
C6_Witness ==
    \E n \in Running : \E src \in RunningPeers(n) :
        /\ log[n] # <<>>
        /\ resp[n][src] = RequestVoteResponse(current_term[n], TRUE)
        /\ voted_for[n] \in Peers(n)

\* The node adopted term t, cleared its vote and is follower.
SteppedDown(n, t) ==
    current_term'[n] = t /\ voted_for'[n] = None /\ role'[n] = "follower"

\* C7: step-down rule: a node that handles an append_entries or a request_vote,
\* or reads an answer to its own request_vote, with a term higher than its own
\* sets current_term to that term, clears voted_for and becomes follower (a
\* request_vote may then get the cleared vote).
C7_StepDown ==
    [][\A n \in Running : \A p \in RunningPeers(n) :
          /\ (RecvAppendEntries(n, p) /\ req[p][n].term > current_term[n])
                => SteppedDown(n, req[p][n].term)
          /\ (RecvRequestVote(n, p) /\ req[p][n].term > current_term[n])
                => \/ SteppedDown(n, req[p][n].term)
                   \/ /\ current_term'[n] = req[p][n].term
                      /\ role'[n] = "follower"
                      /\ voted_for'[n] = req[p][n].candidate_id
                      /\ resp'[n][p].vote_granted
          /\ (asking[n] = p /\ ElectionRecv(n) /\ resp[p][n].term > current_term[n])
                => SteppedDown(n, resp[p][n].term)]_vars

\* C8: stale-term rejection: an append_entries or request_vote with a term
\* lower than the node's is answered negatively with the node's term, and
\* current_term, voted_for, role, leader_id, log and the election timer stay.
C8_StaleRejected ==
    [][\A n \in Running : \A src \in RunningPeers(n) :
          /\ \A m \in AppendEntriesInputs(n) :
                (/\ m.term < current_term[n]
                 /\ resp'[n][src] # resp[n][src]
                 /\ PeerSendsAppendEntries(n, src, m)) =>
                    /\ resp'[n][src] = AppendEntriesResponse(current_term[n], FALSE)
                    /\ UNCHANGED <<current_term, voted_for, role, leader_id, log,
                                   timer_expired>>
          /\ \A m \in RequestVoteInputs(n) :
                (/\ m.term < current_term[n]
                 /\ resp'[n][src] # resp[n][src]
                 /\ PeerSendsRequestVote(n, src, m)) =>
                    /\ resp'[n][src] = RequestVoteResponse(current_term[n], FALSE)
                    /\ UNCHANGED <<current_term, voted_for, role, leader_id, log,
                                   timer_expired>>]_vars

\* A candidate with a log whose timer has elapsed has refused an append_entries.
C8_Witness ==
    \E n \in Running : \E src \in RunningPeers(n) :
        /\ resp[n][src] = AppendEntriesResponse(current_term[n], FALSE)
        /\ role[n] = "candidate"
        /\ timer_expired[n]
        /\ log[n] # <<>>

\* C9: a node becomes leader only with more counted votes than half of
\* all_nodes, the votes being its own and one per peer whose answer with
\* vote_granted true its election read.
C9_LeaderByMajority ==
    [][\A n \in Running :
          (role'[n] = "leader" /\ role[n] # "leader") =>
              /\ votes'[n] * 2 > Len(AllNodes)
              /\ votes'[n] = 1 + Cardinality(granters'[n])
              /\ granters'[n] \subseteq Peers(n)]_vars

\* A node is leader by its own vote and the vote of one peer, the third node
\* having no connection.
C9_Witness ==
    \E n \in Running :
        role[n] = "leader" /\ votes[n] = 2 /\ Cardinality(granters[n]) = 1

\* C10: a follower that knows no leader answers a join, start_game or answer
\* with a not-leader error and leaves node.players and node.active_game alone.
C10_NotLeaderRejected ==
    [][\A c \in Conns :
          (/\ player_at[c] # None
           /\ role[player_at[c]] = "follower"
           /\ leader_id[player_at[c]] = None
           /\ \/ Join(c)
              \/ StartGame(c)
              \/ \E question_id \in {0, 1}, answer_id \in AnswerInputs :
                    Answer(c, question_id, answer_id))
          => /\ last_sent'[c] = "not_leader_error"
             /\ UNCHANGED <<players, active_game>>]_vars

InRoster(n, c) ==
    LET roster == GetPlayers(n)
    IN Cardinality({i \in 1..Len(roster) : roster[i].id = c})

C13_ElectionCriticalSection ==
    [][\A n \in Running :
          (role'[n] = "leader" /\ role[n] # "leader") =>
              /\ role[n] = "candidate"
              /\ n \in voted_in_term[n]
              /\ voted_for[n] = n]_vars
\* The log has an entry at the 0-based index with the term; index -1 is the
\* place before the first entry.
HasEntry(l, index, term) ==
    index = -1 \/ (index + 1 <= Len(l) /\ l[index + 1].term = term)

\* The number of leading entries of es that the log l holds already from
\* position base + 1 on.
RECURSIVE Agreeing(_, _, _)
Agreeing(l, base, es) ==
    IF es # <<>> /\ base + 1 <= Len(l) /\ l[base + 1] = es[1]
    THEN 1 + Agreeing(l, base + 1, Tail(es))
    ELSE 0

\* The log after the entries es are put after position base: what agrees stays,
\* from the first entry that does not the log is cut and the rest of es appended.
Reconciled(l, base, es) ==
    LET k == Agreeing(l, base, es)
    IN IF k = Len(es) THEN l
       ELSE SubSeq(l, 1, base + k) \o SubSeq(es, k + 1, Len(es))

\* C14: follower acceptance rule: a node that handles an append_entries of a
\* term not lower than its own appends the entries only if its log has an entry
\* at the stated preceding index with the stated preceding term; if it has not,
\* it answers success false and its log stays; if it has, the entries of its log
\* that conflict are cut from the first mismatch and the leader's appended.
C14_FollowerAcceptance ==
    [][\A n \in Running : \A src \in RunningPeers(n) :
          \A m \in AppendEntriesPrevInputs(n) :
            (/\ m.term >= current_term[n]
             /\ resp'[n][src] # resp[n][src]
             /\ PeerSendsAppendEntriesPrev(n, src, m))
            => IF HasEntry(log[n], m.prev_log_index, m.prev_log_term)
               THEN log'[n] = Reconciled(log[n], m.prev_log_index + 1, m.entries)
               ELSE /\ log'[n] = log[n]
                    /\ ~resp'[n][src].success]_vars
\* C15: election trigger: a node starts an election only as follower or
\* candidate with its election timer elapsed, never as leader; the start adds
\* one to current_term, makes the node candidate, sets voted_for to its own id
\* and resets the timer; and every request_vote the node sends is one of an
\* election it is running: it carries the node's id, the term of that election
\* (the node is still candidate of the term it started the election in) and the
\* index and term of the last entry of its log.
C15_ElectionTrigger ==
    [][\A n \in Running :
          /\ StartElection(n) =>
                /\ role[n] \in {"follower", "candidate"}
                /\ timer_expired[n]
                /\ current_term'[n] = current_term[n] + 1
                /\ role'[n] = "candidate"
                /\ voted_for'[n] = n
                /\ ~timer_expired'[n]
          /\ \A p \in Peers(n) :
                (req'[n][p] # req[n][p] /\ req'[n][p].type = "request_vote") =>
                    /\ req'[n][p].candidate_id = n
                    /\ req'[n][p].term = current_term'[n]
                    /\ role'[n] = "candidate"
                    /\ n \in voted_in_term'[n]
                    /\ req'[n][p].last_log_index = Len(log'[n]) - 1
                    /\ req'[n][p].last_log_term =
                          (IF log'[n] = <<>> THEN 0 ELSE log'[n][Len(log'[n])].term)]_vars
\* C16: election retry: with the election timer fairly scheduled, a node that
\* is candidate of a term goes on to be candidate of a higher term, unless its
\* election reaches a majority (it is leader), it follows a leader whose
\* append_entries it accepted, or its term is the highest of the model.
C16_ElectionRetry ==
    \A n \in Running : \A t \in 1..(MaxTerm - 1) :
        (role[n] = "candidate" /\ current_term[n] = t)
            ~> \/ role[n] = "candidate" /\ current_term[n] > t
               \/ role[n] = "leader"
               \/ role[n] = "follower" /\ leader_id[n] # None
               \/ current_term[n] = MaxTerm
\* C17: in the step in which a node becomes leader, an append_entries with the
\* leader's term, its id and no entries is sent to every connected peer: the
\* heartbeat is part of becoming leader.
C17_HeartbeatOnBecomingLeader ==
    [][\A n \in Running :
          (role'[n] = "leader" /\ role[n] # "leader") =>
              \A p \in connections'[n] :
                  req'[n][p] = [type |-> "append_entries",
                                term |-> current_term'[n],
                                leader_id |-> n,
                                entries |-> <<>>]]_vars
C19_LeaderKnowsItself ==
    \A n \in Running : role[n] = "leader" => leader_id[n] = n

\* A node is leader, and a node that was leader before has accepted its
\* append_entries and follows it.
C19_Witness ==
    \E n \in Running : \E k \in Running \ {n} :
        /\ role[n] = "leader"
        /\ leader_id[n] = n
        /\ role[k] = "follower"
        /\ leader_id[k] = n
        /\ timer_task[k] = "crashed"
====
